---- MODULE Spec2Model ----
(***************************************************************************)
(* GlobalProtect gateway log parser (gp-logs-cleaner/gateway_parser.py):   *)
(* gateway-list extraction, gateway-list removal and time-window filtering *)
(* over log files, and the command line that composes them.                *)
(*                                                                         *)
(* A file is a sequence of tokens.  A token stands for a fixed piece of    *)
(* text; the pieces are chosen so that the regular expressions of the code *)
(* match on token boundaries only:                                         *)
(*   cr, lf   the characters \r and \n                                     *)
(*   bad      a byte that is not valid UTF-8                               *)
(*   txt      a letter                                                     *)
(*   open     the text <gateway-list                                       *)
(*   gt       the character >                                              *)
(*   close    the text </gateway-list>                                     *)
(*   remtail  the text -removed comment="Gateway list removed to reduce    *)
(*            log size"/>                                                  *)
(*   amp      the character &                                              *)
(*   entry    an <entry>...</entry> element; its payload holds the text of *)
(*            its gateway, priority and description sub-elements           *)
(*   ts       a timestamp text; its payload holds the digits               *)
(* Text (element text, descriptions) is a sequence of code points.         *)
(*                                                                         *)
(* The Mobile Users DNS updater (py_prisma-mu-dns-prod) is modelled in its  *)
(* own section, on the variable dns.                                       *)
(***************************************************************************)
EXTENDS Integers, Sequences, FiniteSets, TLC

VARIABLES
  fs,    \* the files: path -> [exists, data]
  now,   \* the wall clock, in seconds
  pc,    \* "idle", or the step main() is at
  args,  \* the command line of main()
  cur,   \* current_file of main()
  ev,    \* the last call of a method of GatewayParser and what it did
  dns,   \* the DNS updater: its run, the remote configuration, its effects
  pm     \* the PCAP merger: its run, the tools it started, its messages

vars == <<fs, now, pc, args, cur, ev, dns, pm>>

-----------------------------------------------------------------------------
(* Bounds of the model *)

MaxLen == 4

MaxLines == 2

MaxEntries == 3

MaxClock == 1

MaxFiles == 3

-----------------------------------------------------------------------------
(* Tokens *)

Tok(kind) == [k |-> kind, p |-> <<>>]

CR == Tok("cr")

LF == Tok("lf")

OpenTag == Tok("open")

CloseTag == Tok("close")

RemTail == Tok("remtail")

\* the replacement text of re.sub: <gateway-list-removed comment="..."/>
Placeholder == <<OpenTag, RemTail>>

-----------------------------------------------------------------------------
(* Reading and writing text files *)

\* bytes.decode('utf-8', errors='ignore'): undecodable bytes are dropped
Decode(bytes) == SelectSeq(bytes, LAMBDA t : t.k # "bad")

\* universal newlines on read (newline=None): \r\n and \r become \n
RECURSIVE TranslateNewlines(_)
TranslateNewlines(s) ==
  IF s = <<>> THEN <<>>
  ELSE IF Head(s).k = "cr"
       THEN IF Len(s) >= 2 /\ s[2].k = "lf"
            THEN <<LF>> \o TranslateNewlines(Tail(Tail(s)))
            ELSE <<LF>> \o TranslateNewlines(Tail(s))
       ELSE <<Head(s)>> \o TranslateNewlines(Tail(s))

\* open(path, 'r', encoding='utf-8', errors='ignore').read()
ReadText(bytes) == TranslateNewlines(Decode(bytes))

\* os.linesep of a POSIX system
LineSep == <<LF>>

\* f.write(text) on a file opened with 'w' (newline=None): \n becomes os.linesep
RECURSIVE WriteText(_)
WriteText(text) ==
  IF text = <<>> THEN <<>>
  ELSE IF Head(text).k = "lf"
       THEN LineSep \o WriteText(Tail(text))
       ELSE <<Head(text)>> \o WriteText(Tail(text))

-----------------------------------------------------------------------------
(* The gateway-list pattern r'<gateway-list.*?</gateway-list>' with DOTALL *)

\* positions of the tokens of a kind at or after position from
Positions(s, kind, from) == {i \in from..Len(s) : s[i].k = kind}

Min(S) == CHOOSE x \in S : \A y \in S : x <= y

\* re.search from position from: <<start, end>> of the leftmost match, the
\* lazy .*? ending at the first closing tag after the start; <<>> if none
FindBlock(s, from) ==
  LET starts == {i \in Positions(s, "open", from) : Positions(s, "close", i + 1) # {}}
  IN IF starts = {} THEN <<>>
     ELSE LET i == Min(starts)
          IN <<i, Min(Positions(s, "close", i + 1))>>

\* re.sub(pattern, placeholder, content): every non-overlapping match, left
\* to right, is replaced
RECURSIVE SubFrom(_, _)
SubFrom(s, from) ==
  LET m == FindBlock(s, from)
  IN IF m = <<>> THEN SubSeq(s, from, Len(s))
     ELSE SubSeq(s, from, m[1] - 1) \o Placeholder \o SubFrom(s, m[2] + 1)

RemoveBlocks(content) == SubFrom(content, 1)

-----------------------------------------------------------------------------
(* Text: sequences of code points *)

\* Python's str comparison a < b: by code point, a proper prefix is smaller
RECURSIVE TextLess(_, _)
TextLess(a, b) ==
  IF b = <<>> THEN FALSE
  ELSE IF a = <<>> THEN TRUE
  ELSE IF Head(a) # Head(b) THEN Head(a) < Head(b)
  ELSE TextLess(Tail(a), Tail(b))

IsSpace(c) == c \in {9, 10, 13, 32}

IsDigit(c) == c \in 48..57

RECURSIVE Strip(_)
Strip(t) ==
  IF t = <<>> THEN <<>>
  ELSE IF IsSpace(Head(t)) THEN Strip(Tail(t))
  ELSE IF IsSpace(t[Len(t)]) THEN Strip(SubSeq(t, 1, Len(t) - 1))
  ELSE t

RECURSIVE DigitsValue(_)
DigitsValue(t) ==
  IF t = <<>> THEN 0
  ELSE 10 * DigitsValue(SubSeq(t, 1, Len(t) - 1)) + (t[Len(t)] - 48)

\* int(text): surrounding whitespace is stripped, one optional sign, then
\* decimal digits; anything else raises ValueError
PyInt(text) ==
  LET t == Strip(text)
      signed == t # <<>> /\ Head(t) \in {43, 45}
      digits == IF signed THEN Tail(t) ELSE t
  IN IF digits # <<>> /\ \A i \in 1..Len(digits) : IsDigit(digits[i])
     THEN [ok |-> TRUE,
           val |-> IF signed /\ Head(t) = 45 THEN 0 - DigitsValue(digits)
                   ELSE DigitsValue(digits)]
     ELSE [ok |-> FALSE, val |-> 0]

-----------------------------------------------------------------------------
(* Gateway records: GatewayParser._parse_gateway_xml *)

\* a sub-element of an entry: absent, or present with its text
Absent == [has |-> FALSE, text |-> <<>>]

Elem(t) == [has |-> TRUE, text |-> t]

Entry(gw, prio, desc) ==
  [k |-> "entry", p |-> [gateway |-> gw, priority |-> prio, description |-> desc]]

\* _get_text: the child's text, or the default when the child is missing or
\* has no text
GetText(entry, tag, default) ==
  LET child == entry.p[tag]
  IN IF child.has /\ child.text # <<>> THEN child.text ELSE default

\* ET.fromstring on the matched block: the document is
\*   <gateway-list  whitespace*  >  content*  </gateway-list>
\* where content is character data or an entry element; anything else is a
\* ParseError.  The result holds the root's entry children in document order.
XmlParse(block) ==
  LET n == Len(block)
      gts == {i \in 2..n : block[i].k = "gt"}
      g == IF gts = {} THEN 0 ELSE Min(gts)
      wellFormed ==
        /\ n >= 3
        /\ block[1].k = "open"
        /\ block[n].k = "close"
        /\ g # 0
        /\ \A i \in 2..(g - 1) : block[i].k \in {"lf", "cr"}
        /\ \A i \in (g + 1)..(n - 1) :
              block[i].k \in {"txt", "lf", "cr", "gt", "remtail", "entry", "ts"}
  IN IF wellFormed
     THEN [ok |-> TRUE,
           entries |-> SelectSeq(SubSeq(block, g + 1, n - 1), LAMBDA t : t.k = "entry")]
     ELSE [ok |-> FALSE, entries |-> <<>>]

\* the zero text '0', the default of the priority element
ZeroText == <<48>>

\* the dictionary built for one entry; priority holds the outcome of int()
GatewayInfo(entry) ==
  [gateway |-> GetText(entry, "gateway", <<>>),
   description |-> GetText(entry, "description", <<>>),
   priority |-> PyInt(GetText(entry, "priority", ZeroText))]

KeyLessByPriorityOnly(a, b) == a.priority < b.priority

\* (priority, description) tuple comparison of the sort key
KeyLess(a, b) ==
  \/ a.priority < b.priority
  \/ a.priority = b.priority /\ TextLess(a.description, b.description)

\* stable insertion: x goes before the first element whose key is greater
RECURSIVE InsertStable(_, _)
InsertStable(sorted, x) ==
  IF sorted = <<>> THEN <<x>>
  ELSE IF KeyLess(x, Head(sorted)) THEN <<x>> \o sorted
  ELSE <<Head(sorted)>> \o InsertStable(Tail(sorted), x)

\* sorted(gateways, key=lambda x: (x['priority'], x['description'])): stable
RECURSIVE SortGateways(_)
SortGateways(gws) ==
  IF gws = <<>> THEN <<>>
  ELSE InsertStable(SortGateways(SubSeq(gws, 1, Len(gws) - 1)), gws[Len(gws)])

BuildGateways(entries) ==
  [i \in 1..Len(entries) |->
     LET g == GatewayInfo(entries[i])
     IN [gateway |-> g.gateway, description |-> g.description,
         priority |-> g.priority.val]]

ParseGatewayXmlPartial(xml) ==
  LET x == XmlParse(xml)
      good == SelectSeq(x.entries, LAMBDA e : GatewayInfo(e).priority.ok)
  IN IF ~x.ok THEN [raised |-> "none", ret |-> <<>>]
     ELSE [raised |-> "none", ret |-> SortGateways(BuildGateways(good))]

\* _parse_gateway_xml: ParseError is caught and gives []; the ValueError of
\* int() is not caught here
ParseGatewayXml(xml) ==
  LET x == XmlParse(xml)
  IN IF ~x.ok THEN [raised |-> "none", ret |-> <<>>]
     ELSE IF \E i \in 1..Len(x.entries) : ~GatewayInfo(x.entries[i]).priority.ok
     THEN [raised |-> "ValueError", ret |-> <<>>]
     ELSE [raised |-> "none", ret |-> SortGateways(BuildGateways(x.entries))]

-----------------------------------------------------------------------------
(* Timestamps: GatewayParser.parse_log_timestamp *)

\* a timestamp text.  Dialect "A" is  P<n>-T<n> MM/DD/YYYY HH:MM:SS:mmm,
\* dialect "B" is  MM/DD/YY HH:MM:SS:mmm; the fields are the digit groups
Stamp(dial, mo, dd, yr, hh, mi, ss, ms) ==
  [k |-> "ts",
   p |-> [dial |-> dial, mo |-> mo, dd |-> dd, yr |-> yr,
          hh |-> hh, mi |-> mi, ss |-> ss, ms |-> ms]]

\* a datetime value
DateTime(y, mo, d, h, mi, s, us) ==
  [y |-> y, mo |-> mo, d |-> d, h |-> h, mi |-> mi, s |-> s, us |-> us]

DtTuple(t) == <<t.y, t.mo, t.d, t.h, t.mi, t.s, t.us>>

\* datetime comparison a < b
DtLess(a, b) == TextLess(DtTuple(a), DtTuple(b))

IsLeap(y) == (y % 4 = 0 /\ y % 100 # 0) \/ y % 400 = 0

DaysInMonth(y, mo) ==
  IF mo = 2 THEN (IF IsLeap(y) THEN 29 ELSE 28)
  ELSE IF mo \in {4, 6, 9, 11} THEN 30 ELSE 31

\* %Y takes the four digits; %y maps 69..99 to 1969..1999 and 0..68 to 2000..2068
StrptimeYear(f) ==
  IF f.dial = "A" THEN f.yr
  ELSE IF f.yr >= 69 THEN 1900 + f.yr ELSE 2000 + f.yr

\* datetime.strptime on the fields: ValueError unless they name a real time;
\* %f reads the three digits as a fraction of a second, in microseconds
Strptime(f, withFraction) ==
  LET y == StrptimeYear(f)
      valid == /\ y >= 1
               /\ f.mo \in 1..12
               /\ f.dd >= 1 /\ f.dd <= DaysInMonth(y, f.mo)
               /\ f.hh \in 0..23
               /\ f.mi \in 0..59
               /\ f.ss \in 0..59
  IN [ok |-> valid,
      dt |-> DateTime(y, f.mo, f.dd, f.hh, f.mi, f.ss,
                      IF withFraction THEN f.ms * 1000 ELSE 0)]

NotFound == [found |-> FALSE, dt |-> DateTime(0, 0, 0, 0, 0, 0, 0)]

Found(dt) == [found |-> TRUE, dt |-> dt]

\* one dialect's try block: strptime with %f, then
\* dt.replace(microsecond=dt.microsecond * 1000), which raises ValueError
\* above 999999; on ValueError, strptime of the text without the fraction
ParseStamp(f) ==
  LET full == Strptime(f, TRUE)
      short == Strptime(f, FALSE)
  IN IF full.ok /\ full.dt.us * 1000 <= 999999
     THEN Found([full.dt EXCEPT !.us = full.dt.us * 1000])
     ELSE IF short.ok THEN Found(short.dt)
     ELSE NotFound

\* re.search of one dialect's pattern: the leftmost timestamp text of it
FirstStamp(line, dial) ==
  LET at == {i \in 1..Len(line) : line[i].k = "ts" /\ line[i].p.dial = dial}
  IN IF at = {} THEN <<>> ELSE <<line[Min(at)].p>>

\* parse_log_timestamp: the PanGPA pattern first, the PanGPS pattern when
\* that gave nothing, else None
ParseLogTimestamp(line) ==
  LET a == FirstStamp(line, "A")
      b == FirstStamp(line, "B")
      ra == IF a = <<>> THEN NotFound ELSE ParseStamp(a[1])
  IN IF ra.found THEN ra
     ELSE IF b # <<>> THEN ParseStamp(b[1])
     ELSE NotFound

-----------------------------------------------------------------------------
(* Time-window filtering: the loop of GatewayParser.filter_logs_by_time *)

\* f.readlines(): the text cut after every \n
RECURSIVE ReadLines(_)
ReadLines(text) ==
  IF text = <<>> THEN <<>>
  ELSE LET ends == {i \in 1..Len(text) : text[i].k = "lf"}
           e == IF ends = {} THEN Len(text) ELSE Min(ends)
       IN <<SubSeq(text, 1, e)>> \o ReadLines(SubSeq(text, e + 1, Len(text)))

\* f.writelines(lines): the lines one after the other
RECURSIVE Concat(_)
Concat(lines) ==
  IF lines = <<>> THEN <<>> ELSE Head(lines) \o Concat(Tail(lines))

\* an optional bound: <<>> is None, <<t>> is the datetime t
NoTime == <<>>

\* keep_line with lines that carry no timestamp dropped
KeepLineTimedOnly(line, start, end) ==
  LET t == ParseLogTimestamp(line)
  IN /\ t.found
     /\ ~(start # NoTime /\ DtLess(t.dt, start[1]))
     /\ ~(end # NoTime /\ DtLess(end[1], t.dt))

\* the body of the loop: keep_line
KeepLine(line, start, end) ==
  LET t == ParseLogTimestamp(line)
  IN IF ~t.found THEN TRUE
     ELSE /\ ~(start # NoTime /\ DtLess(t.dt, start[1]))
          /\ ~(end # NoTime /\ DtLess(end[1], t.dt))

\* the loop: filtered_lines and filtered_count
RECURSIVE FilterLines(_, _, _)
FilterLines(lines, start, end) ==
  IF lines = <<>> THEN [kept |-> <<>>, removed |-> 0]
  ELSE LET rest == FilterLines(Tail(lines), start, end)
       IN IF KeepLine(Head(lines), start, end)
          THEN [kept |-> <<Head(lines)>> \o rest.kept, removed |-> rest.removed]
          ELSE [kept |-> rest.kept, removed |-> rest.removed + 1]

-----------------------------------------------------------------------------
(* Files *)

Bases == {"in", "cleaned", "filtered"}

Path(base) == [base |-> base, stamp |-> <<>>]

\* f"{input_file}.backup_{timestamp}", the timestamp to the second
BackupPath(path, t) == [base |-> path.base, stamp |-> <<t>>]

Paths ==
  {[base |-> b, stamp |-> st] : b \in Bases, st \in {<<>>} \cup {<<t>> : t \in 0..MaxClock}}

NoFile == [exists |-> FALSE, data |-> <<>>]

File(bytes) == [exists |-> TRUE, data |-> bytes]

\* an optional path: <<>> is None
NoPath == <<>>

\* failures of the environment during one call
Faults == {"none", "backup", "write"}

\* what one call did: the operation, its paths, the bytes of the input file
\* when it started, whether the backup and the output were written, the
\* value returned, an exception leaving the call, and whether the call
\* repeated the call before it on that call's output
NoEvent ==
  [op |-> "none", inp |-> Path("in"), out |-> Path("in"), bak |-> NoPath,
   readOk |-> FALSE, src |-> <<>>, bakWritten |-> FALSE, outWritten |-> FALSE,
   ret |-> FALSE, raised |-> "none", recs |-> <<>>,
   start |-> NoTime, end |-> NoTime, total |-> 0, removed |-> 0,
   report |-> <<>>, again |-> FALSE]

-----------------------------------------------------------------------------
(* GatewayParser.remove_gateway_list_from_log *)

\* the method writing the cleaned content over the input file whatever
\* output path it was given
RemoveGatewayListInPlace(f, t, inp, outOpt, backup, fault) ==
  LET out == IF outOpt = NoPath THEN inp ELSE outOpt[1]
      content == ReadText(f[inp].data)
      bak == BackupPath(inp, t)
      e0 == [NoEvent EXCEPT !.op = "remove", !.inp = inp, !.out = out,
                            !.bak = IF backup THEN <<bak>> ELSE NoPath]
  IN IF ~f[inp].exists THEN [fs |-> f, ev |-> e0]
     ELSE LET e1 == [e0 EXCEPT !.readOk = TRUE, !.src = f[inp].data]
          IN IF backup /\ fault = "backup" THEN [fs |-> f, ev |-> e1]
             ELSE LET f1 == IF backup THEN [f EXCEPT ![bak] = File(f[inp].data)] ELSE f
                      e2 == [e1 EXCEPT !.bakWritten = backup]
                  IN IF fault = "write" THEN [fs |-> f1, ev |-> e2]
                     ELSE [fs |-> [f1 EXCEPT ![inp] = File(WriteText(RemoveBlocks(content)))],
                           ev |-> [e2 EXCEPT !.outWritten = TRUE,
                                             !.ret = Len(content) # 0]]

\* the whole method.  f: the files, t: the clock
RemoveGatewayList(f, t, inp, outOpt, backup, fault) ==
  LET out == IF outOpt = NoPath THEN inp ELSE outOpt[1]
      content == ReadText(f[inp].data)
      cleaned == RemoveBlocks(content)
      bak == BackupPath(inp, t)
      e0 == [NoEvent EXCEPT !.op = "remove", !.inp = inp, !.out = out,
                            !.bak = IF backup THEN <<bak>> ELSE NoPath]
  IN \* open(input_file) fails: the except branch returns False
     IF ~f[inp].exists THEN [fs |-> f, ev |-> e0]
     ELSE LET e1 == [e0 EXCEPT !.readOk = TRUE, !.src = f[inp].data]
          IN \* shutil.copy2 fails: the except branch returns False
             IF backup /\ fault = "backup" THEN [fs |-> f, ev |-> e1]
             ELSE LET f1 == IF backup THEN [f EXCEPT ![bak] = File(f[inp].data)] ELSE f
                      e2 == [e1 EXCEPT !.bakWritten = backup]
                  IN \* open(output_file, 'w') fails
                     IF fault = "write" THEN [fs |-> f1, ev |-> e2]
                     ELSE \* the report divides by original_size: on an empty
                          \* content ZeroDivisionError, caught, returns False
                          [fs |-> [f1 EXCEPT ![out] = File(WriteText(cleaned))],
                           ev |-> [e2 EXCEPT !.outWritten = TRUE,
                                             !.ret = Len(content) # 0]]

-----------------------------------------------------------------------------
(* GatewayParser.filter_logs_by_time *)

\* the report printed after the output was written: the three counts and the
\* names of the bounds printed; the percentage divides by total_count, so on
\* a file of no lines the report breaks off and nothing of it is recorded
FilterReport(total, removed, start, end) ==
  IF total = 0 THEN <<>>
  ELSE <<[total |-> total, kept |-> total - removed, removed |-> removed,
          bounds |-> (IF start # NoTime THEN {"start"} ELSE {})
                       \cup (IF end # NoTime THEN {"end"} ELSE {})]>>

\* the whole method
FilterLogsByTime(f, t, inp, start, end, outOpt, backup, fault) ==
  LET out == IF outOpt = NoPath THEN inp ELSE outOpt[1]
      lines == ReadLines(ReadText(f[inp].data))
      res == FilterLines(lines, start, end)
      bak == BackupPath(inp, t)
      e0 == [NoEvent EXCEPT !.op = "filter", !.inp = inp, !.out = out,
                            !.bak = IF backup THEN <<bak>> ELSE NoPath,
                            !.start = start, !.end = end]
  IN IF ~f[inp].exists THEN [fs |-> f, ev |-> e0]
     ELSE LET e1 == [e0 EXCEPT !.readOk = TRUE, !.src = f[inp].data]
          IN \* open(backup_file, 'w') fails
             IF backup /\ fault = "backup" THEN [fs |-> f, ev |-> e1]
             ELSE LET f1 == IF backup
                            THEN [f EXCEPT ![bak] = File(WriteText(Concat(lines)))]
                            ELSE f
                      e2 == [e1 EXCEPT !.bakWritten = backup]
                  IN IF fault = "write" THEN [fs |-> f1, ev |-> e2]
                     ELSE \* the report divides by total_count: on a file of no
                          \* lines ZeroDivisionError, caught, returns False
                          [fs |-> [f1 EXCEPT ![out] =
                                      File(WriteText(Concat(res.kept)))],
                           ev |-> [e2 EXCEPT !.outWritten = TRUE,
                                             !.total = Len(lines),
                                             !.removed = res.removed,
                                             !.report = FilterReport(Len(lines),
                                                           res.removed, start, end),
                                             !.ret = Len(lines) # 0]]

-----------------------------------------------------------------------------
(* GatewayParser.parse_log_file *)

\* parse_log_file without its except clauses: FileNotFoundError and the
\* ValueError of int() leave the call
ParseLogFileUncaught(f, path) ==
  LET content == ReadText(f[path].data)
      m == FindBlock(content, 1)
  IN IF ~f[path].exists THEN [raised |-> "FileNotFoundError", ret |-> <<>>]
     ELSE IF m = <<>> THEN [raised |-> "none", ret |-> <<>>]
     ELSE ParseGatewayXml(SubSeq(content, m[1], m[2]))

\* FileNotFoundError and every other Exception are caught and give []
ParseLogFile(f, path) ==
  LET content == ReadText(f[path].data)
      m == FindBlock(content, 1)
  IN IF ~f[path].exists \/ m = <<>> THEN [raised |-> "none", ret |-> <<>>]
     ELSE [raised |-> "none", ret |-> ParseGatewayXml(SubSeq(content, m[1], m[2])).ret]

ParseEvent(f, path) ==
  LET r == ParseLogFile(f, path)
  IN [NoEvent EXCEPT !.op = "parse", !.inp = path, !.out = path,
                     !.readOk = f[path].exists, !.src = f[path].data,
                     !.ret = r.ret # <<>>, !.raised = r.raised, !.recs = r.ret]

-----------------------------------------------------------------------------
(* Inputs *)

X == Tok("txt")

GT == Tok("gt")

Amp == Tok("amp")

Bad == Tok("bad")

SeqsUpTo(S, n) == UNION {[1..k -> S] : k \in 0..n}

\* files of markup, text and carriage returns
MarkupFiles == SeqsUpTo({OpenTag, CloseTag, X, CR}, MaxLen)

\* the texts East, West, gw1 .. gw7, 5, 10; the priorities x, " 5" and -1
East == <<69, 97, 115, 116>>

West == <<87, 101, 115, 116>>

Gw(n) == <<103, 119, 48 + n>>

Five == <<53>>

Ten == <<49, 48>>

Entries ==
  { Entry(Elem(Gw(1)), Elem(Ten), Elem(East)),
    Entry(Elem(Gw(2)), Elem(Five), Elem(West)),
    Entry(Elem(Gw(3)), Absent, Elem(East)),
    Entry(Elem(Gw(4)), Elem(Five), Elem(West)),
    Entry(Elem(Gw(5)), Elem(<<120>>), Elem(East)),
    Entry(Elem(Gw(6)), Elem(<<32, 53>>), Elem(East)),
    Entry(Elem(Gw(7)), Elem(<<45, 49>>), Absent) }

\* files holding one gateway-list block, well-formed or not
GatewayFiles ==
  LET lists == SeqsUpTo(Entries, MaxEntries)
  IN {<<OpenTag, GT>> \o es \o <<CloseTag>> : es \in lists}
     \cup {<<OpenTag, GT>> \o es \o <<Amp, CloseTag>> : es \in lists}
     \cup {<<X, CR, LF, OpenTag, LF, GT, X>> \o es \o <<GT, CloseTag, X, CloseTag>> :
             es \in lists}

StampA0 == Stamp("A", 9, 24, 2025, 8, 51, 52, 0)

StampA597 == Stamp("A", 9, 24, 2025, 8, 51, 52, 597)

StampB1 == Stamp("B", 9, 24, 25, 8, 51, 53, 1)

StampB999 == Stamp("B", 9, 24, 25, 8, 51, 51, 999)

StampAInvalid == Stamp("A", 13, 24, 2025, 8, 51, 52, 0)

LineBodies ==
  { <<X>>, <<StampA0>>, <<StampA597, X>>, <<StampB999>>,
    <<StampAInvalid, StampB1>>, <<StampB1, StampA0>> }

\* files of up to MaxLines lines; the last line may lack its \n
LineFiles ==
  LET bodies == SeqsUpTo(LineBodies, MaxLines)
      Terminated(bs) == Concat([i \in 1..Len(bs) |-> bs[i] \o <<LF>>])
  IN {Terminated(bs) : bs \in bodies}
     \cup {SubSeq(Terminated(bs), 1, Len(Terminated(bs)) - 1) : bs \in bodies \ {<<>>}}

WindowTimes ==
  { DateTime(2025, 9, 24, 8, 51, 52, 0), DateTime(2025, 9, 24, 8, 51, 53, 0) }

Bounds == {NoTime} \cup {<<t>> : t \in WindowTimes}

\* log files holding one gateway-list block spread over lines, some of which
\* carry a timestamp: an optional line before, the opening line, up to
\* MaxLines entry lines, the closing line, an optional line after
BlockLogFiles ==
  LET e1 == Entry(Elem(Gw(1)), Elem(Ten), Elem(East))
      e2 == Entry(Elem(Gw(2)), Elem(Five), Elem(West))
      before == {<<>>, <<StampB999, X, LF>>}
      opening == {<<OpenTag, GT, LF>>, <<StampA0, OpenTag, GT, LF>>}
      entryLines == {<<e1, LF>>, <<StampB999, e2, LF>>}
      closing == {<<CloseTag, LF>>, <<StampB1, CloseTag, LF>>}
      after == {<<>>, <<StampB1, X, LF>>}
  IN {b \o o \o Concat(es) \o c \o a :
        b \in before, o \in opening, es \in SeqsUpTo(entryLines, MaxLines),
        c \in closing, a \in after}

\* log files for the command line
MixedFiles ==
  LET block == <<OpenTag, GT, Entry(Elem(Gw(1)), Elem(Ten), Elem(East)),
                 Entry(Elem(Gw(2)), Elem(Five), Elem(West)), CloseTag>>
  IN { <<>>,
       <<X, LF>>,
       block,
       <<StampB999, LF, StampA597, X, CR, LF>> \o block \o <<LF, StampB1, LF>>,
       <<StampA0, LF, Bad, StampB1, LF>>,
       block \o <<X>> \o block }

-----------------------------------------------------------------------------
(* Prisma Access Mobile Users DNS updater: py_prisma-mu-dns-prod            *)
(* (src/dns_config.py, src/csv_handler.py, main.py)                         *)
(*                                                                          *)
(* A configuration holds its id and dns_servers, the list of regions.  A    *)
(* region holds its name, its public DNS setting and, when the key is       *)
(* present, internal_dns_match, the list of rules.  A rule holds its name,  *)
(* domain_list, and primary and secondary, each <<>> when the key is        *)
(* missing and <<server>> otherwise.  A domain is a text.                   *)

DnsRule(name, primary, secondary, domains) ==
  [name |-> name, primary |-> primary, secondary |-> secondary,
   domain_list |-> domains]

\* has_match: whether the key internal_dns_match is present
DnsRegion(name, public, hasMatch, rules) ==
  [name |-> name, public_dns |-> public, has_match |-> hasMatch, rules |-> rules]

DnsConfig(id, servers) == [id |-> id, dns_servers |-> servers]

\* set(list)
Elements(s) == {s[i] : i \in 1..Len(s)}

\* sorted(set of texts)
RECURSIVE SortedTexts(_)
SortedTexts(S) ==
  IF S = {} THEN <<>>
  ELSE LET m == CHOOSE x \in S : \A y \in S : x = y \/ TextLess(x, y)
       IN <<m>> \o SortedTexts(S \ {m})

RECURSIVE InsertText(_, _)
InsertText(sorted, x) ==
  IF sorted = <<>> THEN <<x>>
  ELSE IF TextLess(x, Head(sorted)) THEN <<x>> \o sorted
  ELSE <<Head(sorted)>> \o InsertText(Tail(sorted), x)

\* sorted(list of texts): duplicates stay
RECURSIVE SortList(_)
SortList(s) ==
  IF s = <<>> THEN <<>>
  ELSE InsertText(SortList(SubSeq(s, 1, Len(s) - 1)), s[Len(s)])

FallbackPrimary == "10.208.140.13"

FallbackSecondary == "10.213.13.13"

\* an optional list of region names: <<>> is None, <<names>> is the list
AllRegions == <<>>

\* the body of the loop of _process_dns_update for a region that is not
\* skipped
ProcessRegion(server, domains, rule_name) ==
  LET rules == server.rules
      hits == {i \in 1..Len(rules) : rules[i].name = rule_name}
  IN IF hits # {}
     THEN \* the first rule of that name: domain_list = sorted(set(existing + domains))
          LET i == Min(hits)
          IN [server EXCEPT
                !.has_match = TRUE,
                !.rules[i].domain_list =
                   SortedTexts(Elements(rules[i].domain_list \o domains))]
     ELSE \* a new rule, with the DNS servers of the region's first rule
          LET primary == IF rules # <<>> /\ rules[1].primary # <<>>
                         THEN rules[1].primary[1] ELSE FallbackPrimary
              secondary == IF rules # <<>> /\ rules[1].secondary # <<>>
                           THEN rules[1].secondary[1] ELSE FallbackSecondary
          IN [server EXCEPT
                !.has_match = TRUE,
                !.rules = Append(rules, DnsRule(rule_name, <<primary>>, <<secondary>>,
                                                SortList(domains)))]

\* whether the loop skips the region
Skipped(server, regions) ==
  regions # AllRegions /\ server.name \notin Elements(regions[1])

\* _process_dns_update without the regions filter: every region is updated
ProcessDnsUpdateAllRegions(config, domains, rule_name, regions) ==
  IF config.dns_servers = <<>>
  THEN [raised |-> "Exception", ret |-> config, arg |-> config]
  ELSE [raised |-> "none",
        ret |-> [config EXCEPT !.dns_servers =
                   [i \in 1..Len(config.dns_servers) |->
                      ProcessRegion(config.dns_servers[i], domains, rule_name)]],
        arg |-> config]

\* _process_dns_update.  ret: the configuration returned; arg: the caller's
\* configuration object after the call, which works on a deep copy
ProcessDnsUpdate(config, domains, rule_name, regions) ==
  IF config.dns_servers = <<>>
  THEN [raised |-> "Exception", ret |-> config, arg |-> config]
  ELSE [raised |-> "none",
        ret |-> [config EXCEPT !.dns_servers =
                   [i \in 1..Len(config.dns_servers) |->
                      IF Skipped(config.dns_servers[i], regions)
                      THEN config.dns_servers[i]
                      ELSE ProcessRegion(config.dns_servers[i], domains, rule_name)]],
        arg |-> config]

\* _show_changes_preview: server['internal_dns_match'] and the rule's
\* ['primary'] and ['secondary'] raise KeyError when the key is missing
ShowChangesPreview(updated, rule_name) ==
  LET servers == updated.dns_servers
      Fails(server) ==
        \/ ~server.has_match
        \/ LET hits == {i \in 1..Len(server.rules) : server.rules[i].name = rule_name}
           IN hits # {} /\ (\/ server.rules[Min(hits)].primary = <<>>
                            \/ server.rules[Min(hits)].secondary = <<>>)
  IN IF \E i \in 1..Len(servers) : Fails(servers[i]) THEN "KeyError" ELSE "none"

\* validate_update: the configuration has regions, and every rule has a
\* primary DNS server (id, names and domain_list are always present here)
ValidateUpdate(config) ==
  /\ config.dns_servers # <<>>
  /\ \A i \in 1..Len(config.dns_servers) :
        \A k \in 1..Len(config.dns_servers[i].rules) :
           config.dns_servers[i].rules[k].primary # <<>>

\* failures of the remote service and of the local disk during one call
DnsFaults == {"none", "get", "backup", "put"}

\* update_dns_config with the backup taken of the merged configuration
UpdateDnsConfigBackupAfterMerge(remote, domains, rule_name, dry_run, regions, fault) ==
  LET none == [raised |-> "none", fetched |-> <<remote>>, returned |-> <<>>,
               backups |-> <<>>, puts |-> <<>>, effects |-> <<"get">>,
               remote |-> remote]
      p == ProcessDnsUpdate(remote, domains, rule_name, regions)
      backups == IF dry_run THEN <<>> ELSE <<p.ret>>
  IN \* get_dns_settings raises
     IF fault = "get" THEN [none EXCEPT !.raised = "Exception", !.fetched = <<>>]
     \* backup_config raises
     ELSE IF ~dry_run /\ fault = "backup"
     THEN [none EXCEPT !.raised = "Exception", !.effects = <<"get", "backup">>]
     ELSE IF p.raised # "none"
     THEN [none EXCEPT !.raised = p.raised, !.backups = backups,
                       !.effects = <<"get">> \o (IF dry_run THEN <<>> ELSE <<"backup">>)]
     ELSE IF dry_run
     THEN IF ShowChangesPreview(p.ret, rule_name) # "none"
          THEN [none EXCEPT !.raised = ShowChangesPreview(p.ret, rule_name)]
          ELSE [none EXCEPT !.returned = <<p.ret>>]
     \* requests.put: a status other than 200 and 201 raises
     ELSE IF fault = "put"
     THEN [none EXCEPT !.raised = "Exception", !.backups = backups, !.puts = <<p.ret>>,
                       !.effects = <<"get", "backup", "put">>]
     ELSE \* the service stores the body and answers with it
          [none EXCEPT !.returned = <<p.ret>>, !.backups = backups,
                       !.puts = <<p.ret>>, !.remote = p.ret,
                       !.effects = <<"get", "backup", "put">>]

\* what update_dns_config did: the exception it raised, the configuration
\* the GET gave, the configuration returned, the backups written, the bodies
\* of the PUT requests, the effects in their order, the remote configuration
\* afterwards
UpdateDnsConfig(remote, domains, rule_name, dry_run, regions, fault) ==
  LET none == [raised |-> "none", fetched |-> <<remote>>, returned |-> <<>>,
               backups |-> <<>>, puts |-> <<>>, effects |-> <<"get">>,
               remote |-> remote]
      p == ProcessDnsUpdate(remote, domains, rule_name, regions)
      backups == IF dry_run THEN <<>> ELSE <<remote>>
  IN \* get_dns_settings raises
     IF fault = "get" THEN [none EXCEPT !.raised = "Exception", !.fetched = <<>>]
     \* backup_config raises
     ELSE IF ~dry_run /\ fault = "backup"
     THEN [none EXCEPT !.raised = "Exception", !.effects = <<"get", "backup">>]
     ELSE IF p.raised # "none"
     THEN [none EXCEPT !.raised = p.raised, !.backups = backups,
                       !.effects = <<"get">> \o (IF dry_run THEN <<>> ELSE <<"backup">>)]
     ELSE IF dry_run
     THEN IF ShowChangesPreview(p.ret, rule_name) # "none"
          THEN [none EXCEPT !.raised = ShowChangesPreview(p.ret, rule_name)]
          ELSE [none EXCEPT !.returned = <<p.ret>>]
     \* requests.put: a status other than 200 and 201 raises
     ELSE IF fault = "put"
     THEN [none EXCEPT !.raised = "Exception", !.backups = backups, !.puts = <<p.ret>>,
                       !.effects = <<"get", "backup", "put">>]
     ELSE \* the service stores the body and answers with it
          [none EXCEPT !.returned = <<p.ret>>, !.backups = backups,
                       !.puts = <<p.ret>>, !.remote = p.ret,
                       !.effects = <<"get", "backup", "put">>]

\* config/region_mappings.yaml: technical name -> friendly name
RegionMappings == [t \in {"ip-pool-group-1"} |-> "US East"]

\* get_friendly_region_name
GetFriendlyRegionName(technical, mappings) ==
  IF technical \in DOMAIN mappings THEN mappings[technical] ELSE technical

\* get_all_regions: the names of the regions, in order
RegionNames(config) ==
  [i \in 1..Len(config.dns_servers) |-> config.dns_servers[i].name]

\* main(): selected_regions = [r for r in regions if r in requested_regions]
SelectRegions(regions, requested) ==
  SelectSeq(regions, LAMBDA r : r \in Elements(requested))

\* CSVHandler.load_domains on the first column of the rows: blank cells are
\* left out, and list(dict.fromkeys(domains)) keeps the first of equal ones
RECURSIVE Unique(_)
Unique(s) ==
  IF s = <<>> THEN <<>>
  ELSE LET front == Unique(SubSeq(s, 1, Len(s) - 1))
       IN IF s[Len(s)] \in Elements(front) THEN front ELSE Append(front, s[Len(s)])

LoadDomains(cells) == Unique(SelectSeq(cells, LAMBDA c : c # <<>>))

\* the domains a.x and b.x
DomA == <<97, 46, 120>>

DomB == <<98, 46, 120>>

\* domain lists given to _process_dns_update
DomainLists == {<<>>, <<DomA>>, <<DomB, DomA>>, <<DomA, DomA>>}

\* the internal_dns_match of a region: key missing, empty, another rule, the
\* rule CustomDNS with an unsorted list, both rules without secondary
MatchShapes ==
  { [has |-> FALSE, rules |-> <<>>],
    [has |-> TRUE, rules |-> <<>>],
    [has |-> TRUE, rules |-> <<DnsRule("Corp", <<"10.0.0.1">>, <<"10.0.0.2">>, <<DomB>>)>>],
    [has |-> TRUE,
     rules |-> <<DnsRule("CustomDNS", <<"10.0.0.3">>, <<"10.0.0.4">>, <<DomB, DomA>>)>>],
    [has |-> TRUE,
     rules |-> <<DnsRule("Corp", <<"10.0.0.1">>, <<>>, <<DomB>>),
                 DnsRule("CustomDNS", <<"10.0.0.3">>, <<>>, <<DomB>>)>>] }

PublicDnsSettings == {"Custom", "Prisma Access Default"}

RegionsNamed(name) ==
  {DnsRegion(name, pub, m.has, m.rules) : pub \in PublicDnsSettings, m \in MatchShapes}

\* configurations of no, one and two regions
DnsConfigs ==
  {DnsConfig("cfg", <<>>)}
  \cup {DnsConfig("cfg", <<r>>) : r \in RegionsNamed("ip-pool-group-1")}
  \cup {DnsConfig("cfg", <<r1, r2>>) :
          r1 \in RegionsNamed("ip-pool-group-1"), r2 \in RegionsNamed("worldwide")}

\* region selections given to _process_dns_update
RegionSelections ==
  {AllRegions, <<(<<"ip-pool-group-1">>)>>, <<(<<"worldwide">>)>>, <<(<<"nowhere">>)>>}

\* --regions of the command line, split at the commas: not given, or names
RegionArgs ==
  {<<>>, <<(<<"ip-pool-group-1">>)>>, <<(<<"US East">>)>>,
   <<(<<"worldwide", "nowhere">>)>>, <<(<<"nowhere">>)>>}

\* the first column of the rows of the CSV file
CsvColumns == {<<>>, <<DomA>>, <<DomB, <<>>, DomA, DomB>>}

DnsArgSets ==
  [dry_run : BOOLEAN, regions : RegionArgs, rule_name : {"CustomDNS"},
   cells : CsvColumns]

NoDnsArgs ==
  [dry_run |-> FALSE, regions |-> <<>>, rule_name |-> "CustomDNS", cells |-> <<>>]

\* no call of _process_dns_update yet
NoDnsCall ==
  [op |-> "none", config |-> DnsConfig("cfg", <<>>), domains |-> <<>>,
   rule_name |-> "CustomDNS", regions |-> AllRegions,
   raised |-> "none", ret |-> DnsConfig("cfg", <<>>), arg |-> DnsConfig("cfg", <<>>),
   again |-> FALSE]

\* the state of the DNS updater: the step of main(), its arguments and
\* values, the session, the remote configuration, the effects of
\* update_dns_config, the exit status (-1 while running), and the last call
\* of _process_dns_update
DnsIdle(config) ==
  [pc |-> "idle", args |-> NoDnsArgs, domains |-> <<>>, session |-> "none",
   remote |-> config, regions |-> <<>>, selected |-> <<>>,
   raised |-> "none", fetched |-> <<>>, returned |-> <<>>, backups |-> <<>>,
   puts |-> <<>>, effects |-> <<>>, exit |-> 0 - 1, call |-> NoDnsCall]

-----------------------------------------------------------------------------
(* The PCAP merger: pcap-merger.py *)

\* paths typed at the prompt: the name, the extension, whether
\* os.path.isfile finds the file
PcapInputs ==
  { [stem |-> "a", ext |-> "pcap", exists |-> TRUE],
    [stem |-> "b", ext |-> "PCAPNG", exists |-> TRUE],
    [stem |-> "notes", ext |-> "txt", exists |-> TRUE],
    [stem |-> "gone", ext |-> "pcap", exists |-> FALSE] }

\* file_path.lower().endswith(('.pcap', '.pcapng', '.cap'))
HasPcapExtension(f) ==
  LET lower == IF f.ext = "PCAPNG" THEN "pcapng" ELSE f.ext
  IN lower \in {"pcap", "pcapng", "cap"}

\* one pass of the loop of get_pcap_files on a path that is not empty:
\* whether the path is appended; use_anyway is the answer 'y'
Accepted(f, use_anyway) == f.exists /\ (HasPcapExtension(f) \/ use_anyway)

\* what a tool does: -1 the executable cannot be started, else its exit code
ToolCodes == {-1, 0, 1}

\* run_command answering True whatever the tool's exit code
RunCommandAlwaysTrue(rc) == TRUE

\* run_command: subprocess.run(check=True) raises CalledProcessError on an
\* exit code other than 0, and the function then returns False
RunCommand(rc) == rc = 0

\* the merger before it runs.  steps: the tools started, in order, with what
\* they did; out: the messages that end the run
PmIdle ==
  [pc |-> "idle", files |-> <<>>, base |-> "", steps |-> <<>>,
   merged_size |-> 0, dedup_size |-> 0, out |-> <<>>, raised |-> "none"]

Step(tool, rc) == [tool |-> tool, rc |-> rc]

\* main() returns after a last message
PmEnd(m, message) == [m EXCEPT !.pc = "exit", !.out = Append(m.out, message)]

\* check_tools: sys.exit(1) when a tool is missing
PmCheckTools ==
  /\ pm.pc = "idle"
  /\ \E found \in BOOLEAN :
        pm' = IF found THEN [pm EXCEPT !.pc = "files"]
              ELSE PmEnd(pm, "tools missing")
  /\ UNCHANGED <<fs, now, pc, args, cur, ev, dns>>

\* get_pcap_files: a path is typed and appended
PmEnterFile ==
  /\ pm.pc = "files" /\ Len(pm.files) < MaxFiles
  /\ \E f \in PcapInputs, use_anyway \in BOOLEAN :
        /\ Accepted(f, use_anyway)
        /\ pm' = [pm EXCEPT !.files = Append(pm.files, f)]
  /\ UNCHANGED <<fs, now, pc, args, cur, ev, dns>>

\* get_pcap_files: an empty line ends the loop once two files were given
PmFilesDone ==
  /\ pm.pc = "files" /\ ~(Len(pm.files) < 2)
  /\ pm' = [pm EXCEPT !.pc = "name"]
  /\ UNCHANGED <<fs, now, pc, args, cur, ev, dns>>

\* get_output_filename
PmOutputName ==
  /\ pm.pc = "name"
  /\ \E base \in {"out", "merged"} : pm' = [pm EXCEPT !.pc = "merge", !.base = base]
  /\ UNCHANGED <<fs, now, pc, args, cur, ev, dns>>

\* Step 1: mergecap, then the size of the merged file; os.path.getsize gives
\* <<size>> or raises OSError (<<>>), which nothing catches
PmMerge ==
  /\ pm.pc = "merge"
  /\ \E rc \in ToolCodes, size \in {<<>>, <<0>>, <<1>>} :
        LET m == [pm EXCEPT !.steps = Append(pm.steps, Step("mergecap", rc))]
        IN pm' = IF rc = -1 THEN [m EXCEPT !.pc = "exit", !.raised = "FileNotFoundError"]
                 ELSE IF ~RunCommand(rc) THEN PmEnd(m, "aborted due to merge error")
                 ELSE IF size = <<>> THEN [m EXCEPT !.pc = "exit", !.raised = "OSError"]
                 ELSE [m EXCEPT !.pc = "dedup", !.merged_size = size[1]]
  /\ UNCHANGED <<fs, now, pc, args, cur, ev, dns>>

\* Step 2: editcap, then the size of the deduplicated file and the size
\* reduction, which divides by merged_size
PmDedup ==
  /\ pm.pc = "dedup"
  /\ \E rc \in ToolCodes, size \in {<<>>, <<0>>, <<1>>} :
        LET m == [pm EXCEPT !.steps = Append(pm.steps, Step("editcap", rc))]
        IN pm' = IF rc = -1 THEN [m EXCEPT !.pc = "exit", !.raised = "FileNotFoundError"]
                 ELSE IF ~RunCommand(rc)
                 THEN PmEnd(m, "aborted due to deduplication error")
                 ELSE IF size = <<>> THEN [m EXCEPT !.pc = "exit", !.raised = "OSError"]
                 ELSE IF pm.merged_size = 0 THEN [m EXCEPT !.pc = "exit", !.raised = "ZeroDivisionError"]
                 ELSE [m EXCEPT !.pc = "summary", !.dedup_size = size[1]]
  /\ UNCHANGED <<fs, now, pc, args, cur, ev, dns>>

\* Step 3: the summary file is opened, tshark writes into it, its lines are
\* counted; then the final summary
PmSummary ==
  /\ pm.pc = "summary"
  /\ \E opened \in BOOLEAN, rc \in ToolCodes, counted \in BOOLEAN :
        LET m == [pm EXCEPT !.steps = Append(pm.steps, Step("tshark", rc))]
        IN pm' = IF ~opened THEN PmEnd(pm, "Error writing summary file")
                 ELSE IF rc = -1 THEN PmEnd(m, "Error writing summary file")
                 ELSE IF rc # 0 THEN PmEnd(m, "Error creating summary")
                 ELSE IF ~counted THEN PmEnd(m, "Error writing summary file")
                 ELSE PmEnd(m, "Process completed successfully")
  /\ UNCHANGED <<fs, now, pc, args, cur, ev, dns>>

-----------------------------------------------------------------------------
(* Initial states *)

NoArgs ==
  [remove_gateways |-> FALSE, cleaned_log |-> NoPath, filter_time |-> FALSE,
   start_time |-> <<>>, end_time |-> <<>>, recent |-> <<>>,
   filtered_log |-> NoPath, no_backup |-> FALSE, output |-> FALSE]

InitWith(files) ==
  /\ \E f \in {NoFile} \cup {File(c) : c \in files} :
        fs = [p \in Paths |-> IF p = Path("in") THEN f ELSE NoFile]
  /\ now = 0
  /\ pc = "idle"
  /\ args = NoArgs
  /\ cur = Path("in")
  /\ ev = NoEvent
  /\ dns = DnsIdle(DnsConfig("cfg", <<>>))
  /\ pm = PmIdle

Init == InitWith(MixedFiles)

InitRemover == InitWith(MarkupFiles)

InitFilter == InitWith(LineFiles)

InitExtract == InitWith(GatewayFiles)

InitBlockFilter == InitWith(BlockLogFiles)

-----------------------------------------------------------------------------
(* Calls of the methods *)

\* the clock advances
Tick ==
  /\ now < MaxClock
  /\ now' = now + 1
  /\ UNCHANGED <<fs, pc, args, cur, ev, dns, pm>>

\* a first call of remove_gateway_list_from_log on the input file
RemoveCall ==
  /\ pc = "idle" /\ ev.op = "none"
  /\ \E outOpt \in {NoPath, <<Path("cleaned")>>}, backup \in BOOLEAN, fault \in Faults :
        LET r == RemoveGatewayList(fs, now, Path("in"), outOpt, backup, fault)
        IN fs' = r.fs /\ ev' = r.ev
  /\ UNCHANGED <<now, pc, args, cur, dns, pm>>

\* a first call of filter_logs_by_time on the input file
FilterCall ==
  /\ pc = "idle" /\ ev.op = "none"
  /\ \E start \in Bounds, end \in Bounds, outOpt \in {NoPath, <<Path("filtered")>>},
        backup \in BOOLEAN, fault \in Faults :
        LET r == FilterLogsByTime(fs, now, Path("in"), start, end, outOpt, backup, fault)
        IN fs' = r.fs /\ ev' = r.ev
  /\ UNCHANGED <<now, pc, args, cur, dns, pm>>

\* the same method called again, in place, on the file the last call wrote
Reapply ==
  /\ pc = "idle" /\ ev.op \in {"remove", "filter"} /\ ev.outWritten
  /\ \E fault \in Faults :
        LET r == IF ev.op = "remove"
                 THEN RemoveGatewayList(fs, now, ev.out, NoPath, ev.bak # NoPath, fault)
                 ELSE FilterLogsByTime(fs, now, ev.out, ev.start, ev.end, NoPath,
                                       ev.bak # NoPath, fault)
        IN fs' = r.fs /\ ev' = [r.ev EXCEPT !.again = TRUE]
  /\ UNCHANGED <<now, pc, args, cur, dns, pm>>

\* a call of parse_log_file on the input file
ParseCall ==
  /\ pc = "idle" /\ ev.op = "none"
  /\ ev' = ParseEvent(fs, Path("in"))
  /\ UNCHANGED <<fs, now, pc, args, cur, dns, pm>>

-----------------------------------------------------------------------------
(* main(): the non-interactive command line *)

\* a time string of the command line: one that parse_time_input reads as the
\* datetime dt, or one that matches none of its formats
TimeArgs ==
  {[ok |-> FALSE, dt |-> NotFound.dt]} \cup {[ok |-> TRUE, dt |-> t] : t \in WindowTimes}

OptTimeArgs == {<<>>} \cup {<<a>> : a \in TimeArgs}

\* parse_time_input: the datetime, or None
ParseTimeInput(a) == IF a.ok THEN <<a.dt>> ELSE NoTime

\* datetime.now(): the clock starts at 08:52:52 on 09/24/2025
NowTime(t) == DateTime(2025, 9, 24, 8, 52, 52 + t, 0)

\* dt - timedelta(minutes=m), for results that stay in the month of dt
MinusMinutes(dt, m) ==
  LET total == ((dt.d - 1) * 24 + dt.h) * 60 + dt.mi - m
  IN [dt EXCEPT !.d = (total \div 1440) + 1,
                !.h = (total % 1440) \div 60,
                !.mi = total % 60]

\* a --recent string, lowercased: the text before its last character and
\* that character
Recent(num, unit) == [num |-> num, unit |-> unit]

RecentArgs ==
  { Recent(<<49>>, "m"), Recent(<<49>>, "h"), Recent(<<49>>, "d"),
    Recent(<<120>>, "m"), Recent(<<49>>, "x") }

OptRecentArgs == {<<>>} \cup {<<r>> : r \in RecentArgs}

\* the minutes of a unit
UnitMinutes(unit) == IF unit = "h" THEN 60 ELSE IF unit = "d" THEN 1440 ELSE 1

\* the --recent branch of main(): the start time, or None when main()
\* prints "Invalid recent format" and returns
RecentStart(r, t) ==
  IF r.unit \notin {"h", "d", "m"} \/ ~PyInt(r.num).ok THEN NoTime
  ELSE <<MinusMinutes(NowTime(t), PyInt(r.num).val * UnitMinutes(r.unit))>>

ArgSets ==
  [remove_gateways : BOOLEAN, cleaned_log : {NoPath, <<Path("cleaned")>>},
   filter_time : BOOLEAN, start_time : OptTimeArgs, end_time : OptTimeArgs,
   recent : OptRecentArgs,
   filtered_log : {NoPath, <<Path("filtered")>>},
   no_backup : BOOLEAN, output : BOOLEAN]

\* args = parser.parse_args(); current_file = args.input_file
MainStart ==
  /\ pc = "idle" /\ ev.op = "none"
  /\ args' \in ArgSets
  /\ cur' = Path("in")
  /\ pc' = "remove"
  /\ UNCHANGED <<fs, now, ev, dns, pm>>

\* "Handle gateway removal"
MainRemove ==
  /\ pc = "remove"
  /\ IF args.remove_gateways
     THEN \E fault \in Faults :
            LET r == RemoveGatewayList(fs, now, cur, args.cleaned_log,
                                       ~args.no_backup, fault)
            IN /\ fs' = r.fs
               /\ ev' = r.ev
               /\ IF ~r.ev.ret THEN pc' = "done" /\ cur' = cur
                  ELSE /\ pc' = "filter"
                       /\ cur' = IF args.cleaned_log # NoPath
                                 THEN args.cleaned_log[1] ELSE cur
     ELSE pc' = "filter" /\ UNCHANGED <<fs, ev, cur>>
  /\ UNCHANGED <<now, args, dns, pm>>

TimeRequested(a) ==
  a.filter_time \/ a.start_time # <<>> \/ a.end_time # <<>> \/ a.recent # <<>>

\* an unreadable --start-time, --end-time or --recent ends main() before
\* filtering
MainFilterRejects(a) ==
  \/ a.start_time # <<>> /\ ParseTimeInput(a.start_time[1]) = NoTime
  \/ a.end_time # <<>> /\ ParseTimeInput(a.end_time[1]) = NoTime
  \/ a.recent # <<>> /\ RecentStart(a.recent[1], 0) = NoTime

\* "Handle time filtering"
MainFilter ==
  /\ pc = "filter"
  /\ IF ~TimeRequested(args)
     THEN pc' = "extract" /\ UNCHANGED <<fs, ev, cur>>
     ELSE IF MainFilterRejects(args)
     THEN pc' = "done" /\ UNCHANGED <<fs, ev, cur>>
     ELSE \E fault \in Faults :
            LET start == IF args.recent # <<>> THEN RecentStart(args.recent[1], now)
                         ELSE IF args.start_time = <<>> THEN NoTime
                         ELSE ParseTimeInput(args.start_time[1])
                end == IF args.end_time = <<>> THEN NoTime
                       ELSE ParseTimeInput(args.end_time[1])
                r == FilterLogsByTime(fs, now, cur, start, end, args.filtered_log,
                                      ~args.no_backup, fault)
            IN /\ fs' = r.fs
               /\ ev' = r.ev
               /\ IF ~r.ev.ret THEN pc' = "done" /\ cur' = cur
                  ELSE /\ cur' = IF args.filtered_log # NoPath
                                 THEN args.filtered_log[1] ELSE cur
                       /\ pc' = IF args.output THEN "extract" ELSE "done"
  /\ UNCHANGED <<now, args, dns, pm>>

\* the extraction reading the input path whatever the earlier steps wrote
MainExtractFromInput ==
  /\ pc = "extract"
  /\ ev' = ParseEvent(fs, Path("in"))
  /\ pc' = "done"
  /\ UNCHANGED <<fs, now, args, cur, dns, pm>>

\* "Parse the log file for gateway extraction"
MainExtract ==
  /\ pc = "extract"
  /\ ev' = ParseEvent(fs, cur)
  /\ pc' = "done"
  /\ UNCHANGED <<fs, now, args, cur, dns, pm>>

-----------------------------------------------------------------------------
(* The DNS updater: main() of main.py and calls of _process_dns_update *)

\* the log parser at rest
ParserIdle ==
  /\ fs = [p \in Paths |-> NoFile]
  /\ now = 0
  /\ pc = "idle"
  /\ args = NoArgs
  /\ cur = Path("in")
  /\ ev = NoEvent

InitDns ==
  /\ ParserIdle
  /\ \E c \in DnsConfigs : dns = DnsIdle(c)
  /\ pm = PmIdle

\* sys.exit(status); logout tells whether auth.logout() was called first
DnsExit(d, status, logout) ==
  [d EXCEPT !.pc = "exit", !.exit = status,
            !.session = IF logout THEN "closed" ELSE d.session]

\* parse_args, load_domains, validate_domains: an empty list of domains
\* raises ValueError and main() exits with 1
DnsMainStart ==
  /\ dns.pc = "idle" /\ dns.call.op = "none"
  /\ \E a \in DnsArgSets :
        LET domains == LoadDomains(a.cells)
            d == [dns EXCEPT !.args = a, !.domains = domains]
        IN dns' = IF domains = <<>> THEN DnsExit(d, 1, FALSE)
                  ELSE [d EXCEPT !.pc = "auth"]
  /\ UNCHANGED <<fs, now, pc, args, cur, ev, pm>>

\* auth.authenticate(): a session, or an exception
DnsAuthenticate ==
  /\ dns.pc = "auth"
  /\ \E ok \in BOOLEAN :
        dns' = IF ok THEN [dns EXCEPT !.pc = "regions", !.session = "open"]
               ELSE DnsExit(dns, 1, FALSE)
  /\ UNCHANGED <<fs, now, pc, args, cur, ev, pm>>

\* regions = dns_manager.get_all_regions()
DnsGetRegions ==
  /\ dns.pc = "regions"
  /\ \E ok \in BOOLEAN :
        dns' = IF ok THEN [dns EXCEPT !.pc = "select", !.regions = RegionNames(dns.remote)]
               ELSE DnsExit(dns, 1, FALSE)
  /\ UNCHANGED <<fs, now, pc, args, cur, ev, pm>>

\* "Filter regions if specified"
DnsSelectRegions ==
  /\ dns.pc = "select"
  /\ dns' = IF dns.args.regions = <<>>
            THEN [dns EXCEPT !.pc = "update", !.selected = dns.regions]
            ELSE LET selected == SelectRegions(dns.regions, dns.args.regions[1])
                 IN IF selected = <<>>
                    THEN DnsExit([dns EXCEPT !.selected = selected], 1, TRUE)
                    ELSE [dns EXCEPT !.pc = "update", !.selected = selected]
  /\ UNCHANGED <<fs, now, pc, args, cur, ev, pm>>

\* result = dns_manager.update_dns_config(...); an exception goes to the
\* handler of main(), which exits with 1
DnsUpdate ==
  /\ dns.pc = "update"
  /\ \E fault \in DnsFaults :
        LET r == UpdateDnsConfig(dns.remote, dns.domains, dns.args.rule_name,
                                 dns.args.dry_run,
                                 IF dns.args.regions # <<>> THEN <<dns.selected>>
                                 ELSE AllRegions,
                                 fault)
            d == [dns EXCEPT !.raised = r.raised, !.fetched = r.fetched,
                             !.returned = r.returned,
                             !.backups = r.backups, !.puts = r.puts,
                             !.effects = r.effects, !.remote = r.remote]
        IN dns' = IF r.raised # "none" THEN DnsExit(d, 1, FALSE)
                  ELSE [d EXCEPT !.pc = "finish"]
  /\ UNCHANGED <<fs, now, pc, args, cur, ev, pm>>

\* the result is displayed; auth.logout(); sys.exit(0)
DnsFinish ==
  /\ dns.pc = "finish"
  /\ dns' = DnsExit(dns, 0, TRUE)
  /\ UNCHANGED <<fs, now, pc, args, cur, ev, pm>>

\* a call of _process_dns_update on a fetched configuration
ProcessCall ==
  /\ dns.pc = "idle" /\ dns.call.op = "none"
  /\ \E domains \in DomainLists, regions \in RegionSelections :
        LET r == ProcessDnsUpdate(dns.remote, domains, "CustomDNS", regions)
        IN dns' = [dns EXCEPT !.call =
                     [op |-> "process", config |-> dns.remote, domains |-> domains,
                      rule_name |-> "CustomDNS", regions |-> regions,
                      raised |-> r.raised, ret |-> r.ret, arg |-> r.arg,
                      again |-> FALSE]]
  /\ UNCHANGED <<fs, now, pc, args, cur, ev, pm>>

\* _process_dns_update called on its own result with the same arguments
ProcessAgain ==
  /\ dns.call.op = "process" /\ ~dns.call.again /\ dns.call.raised = "none"
  /\ LET c == dns.call
         r == ProcessDnsUpdate(c.ret, c.domains, c.rule_name, c.regions)
     IN dns' = [dns EXCEPT !.call =
                  [c EXCEPT !.config = c.ret, !.raised = r.raised, !.ret = r.ret,
                            !.arg = r.arg, !.again = TRUE]]
  /\ UNCHANGED <<fs, now, pc, args, cur, ev, pm>>

-----------------------------------------------------------------------------
(* Specifications *)

Next == MainStart \/ MainRemove \/ MainFilter \/ MainExtract \/ Tick

\* one run of the command line
Spec == Init /\ [][Next]_vars

NextRemover == RemoveCall \/ Reapply \/ ParseCall \/ Tick

\* the remover called on files of markup
SpecRemover == InitRemover /\ [][NextRemover]_vars

NextFilter == FilterCall \/ Reapply \/ Tick

\* the time-window filter called on files of log lines
SpecFilter == InitFilter /\ [][NextFilter]_vars

\* the time-window filter called on log files that hold a gateway list
SpecBlockFilter == InitBlockFilter /\ [][NextFilter]_vars

NextExtract == ParseCall \/ Tick

\* the extractor called on files holding a gateway list
SpecExtract == InitExtract /\ [][NextExtract]_vars

NextDns ==
  \/ DnsMainStart \/ DnsAuthenticate \/ DnsGetRegions \/ DnsSelectRegions
  \/ DnsUpdate \/ DnsFinish

\* one run of the DNS updater's command line
SpecDns == InitDns /\ [][NextDns]_vars

NextProcess == ProcessCall \/ ProcessAgain

\* _process_dns_update called on fetched configurations
SpecProcess == InitDns /\ [][NextProcess]_vars

InitPcap ==
  /\ ParserIdle
  /\ dns = DnsIdle(DnsConfig("cfg", <<>>))
  /\ pm = PmIdle

NextPcap ==
  \/ PmCheckTools \/ PmEnterFile \/ PmFilesDone \/ PmOutputName
  \/ PmMerge \/ PmDedup \/ PmSummary

\* one run of the PCAP merger
SpecPcap == InitPcap /\ [][NextPcap]_vars

-----------------------------------------------------------------------------
(* Claims *)

DtLeq(a, b) == a = b \/ DtLess(a, b)

\* the text of a file
TextOf(path) == ReadText(fs[path].data)

\* the timestamp a line carries: the one parse_log_timestamp selects, read
\* with its milliseconds
StampTime(f) ==
  IF Strptime(f, TRUE).ok THEN Found(Strptime(f, TRUE).dt) ELSE NotFound

LineTime(line) ==
  LET a == FirstStamp(line, "A")
      b == FirstStamp(line, "B")
      ra == IF a = <<>> THEN NotFound ELSE StampTime(a[1])
  IN IF ra.found THEN ra
     ELSE IF b # <<>> THEN StampTime(b[1])
     ELSE NotFound

\* the keep rule of the time window, on a line's time t
InWindow(t, start, end) ==
  \/ ~t.found
  \/ /\ (start = NoTime \/ DtLeq(start[1], t.dt))
     /\ (end = NoTime \/ DtLeq(t.dt, end[1]))

\* C1: filter_logs_by_time writes exactly the lines of the input, in their
\* order, that carry no timestamp or whose timestamp lies in the window,
\* both bounds inclusive.
C1_FilterKeepsWindow ==
  (ev.op = "filter" /\ ev.outWritten) =>
     ReadLines(TextOf(ev.out)) =
        SelectSeq(ReadLines(ReadText(ev.src)),
                  LAMBDA line : InWindow(LineTime(line), ev.start, ev.end))

\* The rule of C1 on the value parse_log_timestamp returns, which has lost
\* the milliseconds: the lines written are those with no timestamp or whose
\* parsed time lies in the window.
FilterKeepsParsedWindow ==
  (ev.op = "filter" /\ ev.outWritten) =>
     ReadLines(TextOf(ev.out)) =
        SelectSeq(ReadLines(ReadText(ev.src)),
                  LAMBDA line : InWindow(ParseLogTimestamp(line), ev.start, ev.end))

\* C2: removal is idempotent: remove_gateway_list_from_log applied to the
\* output of an application writes content identical to that output.
C2_RemovalIdempotent ==
  (ev.op = "remove" /\ ev.again /\ ev.outWritten) => fs[ev.out].data = ev.src

\* C3: a window with start > end is rejected before filter_logs_by_time
\* creates or modifies any file.
C3_InvertedWindowRejected ==
  (/\ ev.op = "filter"
   /\ ev.start # NoTime /\ ev.end # NoTime
   /\ DtLess(ev.end[1], ev.start[1]))
  => (~ev.bakWritten /\ ~ev.outWritten)

\* the timestamp texts of a line
StampsOf(line) == SelectSeq(line, LAMBDA t : t.k = "ts")

\* C4: from a line carrying one valid timestamp of either dialect,
\* parse_log_timestamp returns its date and time with mmm milliseconds as the
\* sub-second part.
C4_MillisecondsKept ==
  (ev.op = "filter" /\ ev.readOk) =>
     \A i \in 1..Len(ReadLines(ReadText(ev.src))) :
        LET line == ReadLines(ReadText(ev.src))[i]
            f == StampsOf(line)[1].p
        IN (Len(StampsOf(line)) = 1 /\ Strptime(f, FALSE).ok) =>
              ParseLogTimestamp(line) =
                 Found(DateTime(StrptimeYear(f), f.mo, f.dd, f.hh, f.mi, f.ss,
                                f.ms * 1000))

\* C5: a backup file, once written, is never overwritten or modified.
C5_BackupWriteOnce ==
  [][\A p \in Paths : (p.stamp # <<>> /\ fs[p].exists) => fs'[p] = fs[p]]_vars

\* C6: with create_backup set, the backup is written before the output and
\* holds the bytes the input file had when the call started; if the backup
\* cannot be created, the output is not written and the input is unchanged.
C6_BackupVerbatimBeforeOutput ==
  (ev.op \in {"remove", "filter"} /\ ev.readOk /\ ev.bak # NoPath) =>
     /\ ev.outWritten => ev.bakWritten
     /\ ev.bakWritten => fs[ev.bak[1]] = File(ev.src)
     /\ ~ev.bakWritten => (~ev.outWritten /\ fs[ev.inp] = File(ev.src))

\* the first gateway-list block of a text, <<>> when there is none
BlockOf(text) ==
  LET m == FindBlock(text, 1)
  IN IF m = <<>> THEN <<>> ELSE SubSeq(text, m[1], m[2])

\* C7: on a file holding no gateway-list block parse_log_file returns the
\* empty sequence and remove_gateway_list_from_log writes the bytes of the
\* input.
C7_NoBlockNoChange ==
  BlockOf(ReadText(ev.src)) = <<>> =>
     /\ ev.op = "parse" => ev.recs = <<>>
     /\ (ev.op = "remove" /\ ev.outWritten) => fs[ev.out].data = ev.src

\* C8: on a text holding a gateway-list block the remover writes the text
\* with the first block, from the first <gateway-list to the first
\* </gateway-list> after it, replaced by the placeholder, and the text
\* before and after it as it was.
C8_OnlyFirstBlockReplaced ==
  (ev.op = "remove" /\ ev.outWritten /\ BlockOf(ReadText(ev.src)) # <<>>) =>
     LET text == ReadText(ev.src)
         m == FindBlock(text, 1)
     IN TextOf(ev.out) =
           SubSeq(text, 1, m[1] - 1) \o Placeholder \o SubSeq(text, m[2] + 1, Len(text))

\* the entry elements of a block, in document order
EntriesOf(block) == SelectSeq(block, LAMBDA t : t.k = "entry")

\* the record of an entry
RecordOf(e) ==
  [gateway |-> IF e.p.gateway.has THEN e.p.gateway.text ELSE <<>>,
   description |-> IF e.p.description.has THEN e.p.description.text ELSE <<>>,
   priority |-> PyInt(IF e.p.priority.has /\ e.p.priority.text # <<>>
                      THEN e.p.priority.text ELSE ZeroText).val]

IntegerPriorities(block) ==
  \A i \in 1..Len(EntriesOf(block)) :
     LET pr == EntriesOf(block)[i].p.priority
     IN PyInt(IF pr.has /\ pr.text # <<>> THEN pr.text ELSE ZeroText).ok

SameKey(a, b) == a.priority = b.priority /\ a.description = b.description

\* ascending by priority, then by description
Ordered(recs) ==
  \A i, j \in 1..Len(recs) :
     i < j => \/ recs[i].priority < recs[j].priority
              \/ /\ recs[i].priority = recs[j].priority
                 /\ ~TextLess(recs[j].description, recs[i].description)

\* one record per entry, none lost or duplicated, and the records of one key
\* in document order
StablePermutation(recs, entries) ==
  LET built == [i \in 1..Len(entries) |-> RecordOf(entries[i])]
  IN /\ Len(recs) = Len(built)
     /\ \A i \in 1..Len(built) :
           SelectSeq(recs, LAMBDA r : SameKey(r, built[i])) =
              SelectSeq(built, LAMBDA r : SameKey(r, built[i]))

CompleteSorted(recs, block) ==
  /\ StablePermutation(recs, EntriesOf(block))
  /\ Ordered(recs)
  /\ SortGateways(recs) = recs

C10_AllOrNothing ==
  ev.op = "parse" =>
     LET block == BlockOf(ReadText(ev.src))
     IN /\ ev.raised = "none"
        /\ ev.recs = <<>> \/ CompleteSorted(ev.recs, block)
        /\ (~XmlParse(block).ok \/ ~IntegerPriorities(block)) => ev.recs = <<>>

\* a well-formed block of three entries, the last with the priority x: nothing
\* is returned
C10_Witness ==
  /\ ev.op = "parse"
  /\ XmlParse(BlockOf(ReadText(ev.src))).ok
  /\ Len(EntriesOf(BlockOf(ReadText(ev.src)))) = 3
  /\ PyInt(EntriesOf(BlockOf(ReadText(ev.src)))[1].p.priority.text).ok
  /\ ~PyInt(EntriesOf(BlockOf(ReadText(ev.src)))[3].p.priority.text).ok
  /\ ev.recs = <<>> /\ ev.raised = "none"

\* C11: every record returned by the extraction has a priority that is a
\* non-negative integer, and text fields that are the element's text, the
\* empty text when the element is absent or empty.
C11_GatewayRecordInvariant ==
  ev.op = "parse" =>
     \A i \in 1..Len(ev.recs) :
        /\ ev.recs[i].priority \in Nat
        /\ \E j \in 1..Len(EntriesOf(BlockOf(ReadText(ev.src)))) :
              LET e == EntriesOf(BlockOf(ReadText(ev.src)))[j]
              IN /\ ev.recs[i].gateway = RecordOf(e).gateway
                 /\ ev.recs[i].description = RecordOf(e).description

\* a window whose bounds, when both given, satisfy start <= end
WindowOrdered(start, end) ==
  start = NoTime \/ end = NoTime \/ DtLeq(start[1], end[1])

\* the report of a filter or remover call ends with its "removed" line and
\* the call returns True; a call that wrote its output and returns False
\* stopped at the division of that line
ReportsRemoved(e, n) == e.outWritten /\ e.ret /\ e.removed = n

\* C12: filtering the output of a filtering with the same window, start <=
\* end, writes output identical to that output and reports zero lines
\* removed.
C12_FilterIdempotent ==
  (/\ ev.op = "filter" /\ ev.again /\ ev.outWritten
   /\ WindowOrdered(ev.start, ev.end))
  => (fs[ev.out].data = ev.src /\ ReportsRemoved(ev, 0))

\* The content half of C12: the second filtering writes the bytes it read and
\* counts no line as removed.
FilterOutputIdempotent ==
  (/\ ev.op = "filter" /\ ev.again /\ ev.outWritten
   /\ WindowOrdered(ev.start, ev.end))
  => (fs[ev.out].data = ev.src /\ ev.removed = 0)

\* the call had nothing to remove: no gateway-list block in the text read
\* (remover), no line outside the window (filter)
NothingToRemove(e) ==
  IF e.op = "remove" THEN BlockOf(ReadText(e.src)) = <<>>
  ELSE \A i \in 1..Len(ReadLines(ReadText(e.src))) :
          KeepLine(ReadLines(ReadText(e.src))[i], e.start, e.end)

\* C13: a remover or filter call on a readable input with nothing to remove,
\* a zero-length file included, returns success, reports zero removed and
\* writes content identical to the input.
C13_NothingToRemoveSucceeds ==
  (/\ ev.op \in {"remove", "filter"} /\ ev.readOk /\ ev.outWritten
   /\ NothingToRemove(ev))
  => (ReportsRemoved(ev, 0) /\ fs[ev.out].data = ev.src)

\* the failure value of a call: [] for parse_log_file, False for the others
ReturnsFailure(e) == ~e.ret /\ e.recs = <<>>

\* C14: no call of parse_log_file, remove_gateway_list_from_log or
\* filter_logs_by_time lets an exception out; a call whose read, backup or
\* write failed returns its failure value; a call that could not read its
\* input leaves every file as it was.
C14_NoExceptionPropagates ==
  [][(ev' # ev /\ ev'.op \in {"parse", "remove", "filter"}) =>
        /\ ev'.raised = "none"
        /\ ~ev'.readOk => (ReturnsFailure(ev') /\ fs' = fs)
        /\ (ev'.bak # NoPath /\ ~ev'.bakWritten) => ReturnsFailure(ev')
        /\ (ev'.op # "parse" /\ ~ev'.outWritten) => ReturnsFailure(ev')]_vars

\* the remover, asked for a backup, was called on an input that does not
\* exist: it returned False and no backup exists
C14_Witness ==
  /\ ev.op = "remove" /\ ~ev.readOk /\ ~ev.ret
  /\ ~fs[ev.inp].exists
  /\ ev.bak # NoPath /\ ~fs[ev.bak[1]].exists

\* C15: when --recent holds a duration token, the window main() passes to
\* filter_logs_by_time has start = now - duration and no end bound.
C15_RecentWindow ==
  [][(/\ pc = "filter" /\ ev' # ev
      /\ args.recent # <<>> /\ RecentStart(args.recent[1], now) # NoTime)
     => (/\ ev'.start = RecentStart(args.recent[1], now)
         /\ ev'.end = NoTime)]_vars

\* The start half of C15: with a duration token the start bound passed to
\* the filter is now - duration, whatever --start-time says.
RecentStartPassed ==
  [][(/\ pc = "filter" /\ ev' # ev
      /\ args.recent # <<>> /\ RecentStart(args.recent[1], now) # NoTime)
     => ev'.start = RecentStart(args.recent[1], now)]_vars

NoDuplicates(s) == \A i, j \in 1..Len(s) : s[i] = s[j] => i = j

\* C16 for domain lists without duplicates, as load_domains returns them
ProcessIdempotentOnDistinctDomains ==
  (/\ dns.call.op = "process" /\ dns.call.again /\ dns.call.raised = "none"
   /\ NoDuplicates(dns.call.domains))
  => dns.call.ret = dns.call.config

\* C17: after a successful run that is no dry run, the configuration sent to
\* the remote resource has the public DNS setting of every updated region
\* set to Prisma Access Default and carries the internal rule there.
C17_PublicDnsSetToDefault ==
  (dns.pc = "exit" /\ dns.exit = 0 /\ ~dns.args.dry_run) =>
     /\ Len(dns.puts) = 1
     /\ \A i \in 1..Len(dns.puts[1].dns_servers) :
           LET server == dns.puts[1].dns_servers[i]
           IN (dns.args.regions = <<>> \/ server.name \in Elements(dns.selected)) =>
                 /\ server.public_dns = "Prisma Access Default"
                 /\ \E k \in 1..Len(server.rules) :
                       server.rules[k].name = dns.args.rule_name

\* The rule half of C17: the configuration sent carries the rule in every
\* updated region.
PutCarriesRule ==
  (dns.pc = "exit" /\ dns.exit = 0 /\ ~dns.args.dry_run) =>
     /\ Len(dns.puts) = 1
     /\ \A i \in 1..Len(dns.puts[1].dns_servers) :
           LET server == dns.puts[1].dns_servers[i]
           IN (dns.args.regions = <<>> \/ server.name \in Elements(dns.selected)) =>
                 \E k \in 1..Len(server.rules) :
                    server.rules[k].name = dns.args.rule_name

\* the regions argument main() gives to update_dns_config
RegionsPassed(d) == IF d.args.regions # <<>> THEN <<d.selected>> ELSE AllRegions

\* C18: with dry_run, on a valid fetched configuration, update_dns_config
\* sends no PUT, writes no backup, leaves the remote configuration as it was
\* and returns the would-be updated configuration.
C18_DryRunOnlySimulates ==
  (/\ dns.args.dry_run /\ dns.fetched # <<>> /\ ValidateUpdate(dns.fetched[1]))
  => (/\ dns.puts = <<>> /\ dns.backups = <<>>
      /\ dns.remote = dns.fetched[1]
      /\ dns.returned =
            <<ProcessDnsUpdate(dns.fetched[1], dns.domains, dns.args.rule_name,
                               RegionsPassed(dns)).ret>>)

\* The frame half of C18: a dry run sends no PUT, writes no backup and leaves
\* the remote configuration as it was.
DryRunChangesNothing ==
  (dns.args.dry_run /\ dns.fetched # <<>>) =>
     (dns.puts = <<>> /\ dns.backups = <<>> /\ dns.remote = dns.fetched[1])

\* list is the sorted union of the domains of the lists a and b
IsSortedUnion(list, a, b) ==
  /\ Elements(list) = Elements(a) \cup Elements(b)
  /\ \A i \in 1..(Len(list) - 1) : TextLess(list[i], list[i + 1])

\* what _process_dns_update may do to a selected region: replace the
\* domain_list of the first rule named rule_name by the sorted union, or,
\* when no rule has that name, append one rule of that name
RegionUpdated(old, new, domains, rule_name) ==
  LET hits == {k \in 1..Len(old.rules) : old.rules[k].name = rule_name}
  IN /\ new.name = old.name
     /\ new.public_dns = old.public_dns
     /\ IF hits # {}
        THEN /\ Len(new.rules) = Len(old.rules)
             /\ \A k \in 1..Len(old.rules) :
                   IF k = Min(hits)
                   THEN /\ new.rules[k].name = old.rules[k].name
                        /\ new.rules[k].primary = old.rules[k].primary
                        /\ new.rules[k].secondary = old.rules[k].secondary
                        /\ IsSortedUnion(new.rules[k].domain_list,
                                         old.rules[k].domain_list, domains)
                   ELSE new.rules[k] = old.rules[k]
        ELSE /\ Len(new.rules) = Len(old.rules) + 1
             /\ SubSeq(new.rules, 1, Len(old.rules)) = old.rules
             /\ new.rules[Len(new.rules)].name = rule_name

\* C19: _process_dns_update leaves the caller's configuration object as it
\* was, returns every region that is not selected unchanged, and in a
\* selected region changes only the rule named rule_name: its domain_list
\* becomes the sorted union, its servers stay, or one new rule is appended.
C19_ProcessFrame ==
  (dns.call.op = "process" /\ dns.call.raised = "none") =>
     LET c == dns.call
         old == c.config.dns_servers
         new == c.ret.dns_servers
     IN /\ c.arg = c.config
        /\ c.ret.id = c.config.id
        /\ Len(new) = Len(old)
        /\ \A i \in 1..Len(old) :
              IF c.regions # AllRegions /\ old[i].name \notin Elements(c.regions[1])
              THEN new[i] = old[i]
              ELSE RegionUpdated(old[i], new[i], c.domains, c.rule_name)

\* a call for the region ip-pool-group-1 only, on a configuration of two
\* regions: the first holds the rule with b.x, a.x and gets a.x, b.x; the
\* second, which has no such rule, is returned as it was
C19_Witness ==
  LET c == dns.call
  IN /\ c.op = "process" /\ ~c.again /\ c.raised = "none"
     /\ c.regions = <<(<<"ip-pool-group-1">>)>>
     /\ c.domains = <<DomA>>
     /\ Len(c.config.dns_servers) = 2
     /\ c.config.dns_servers[1].rules # <<>>
     /\ c.config.dns_servers[1].rules[1].name = "CustomDNS"
     /\ c.config.dns_servers[1].rules[1].domain_list = <<DomB, DomA>>
     /\ c.ret.dns_servers[1].rules[1].domain_list = <<DomA, DomB>>
     /\ c.config.dns_servers[2].rules = <<>>
     /\ c.ret.dns_servers[2] = c.config.dns_servers[2]

\* the technical names whose friendly name, or which themselves, are requested
RequestedTechnical(regions, requested) ==
  SelectSeq(regions,
            LAMBDA r : \/ r \in Elements(requested)
                       \/ GetFriendlyRegionName(r, RegionMappings) \in Elements(requested))

\* C20: a region requested in --regions by its friendly name is selected as
\* when it is requested by its technical name.
C20_FriendlyNameSelects ==
  (dns.pc \in {"update", "finish", "exit"} /\ dns.regions # <<>>
   /\ dns.args.regions # <<>>)
  => dns.selected = RequestedTechnical(dns.regions, dns.args.regions[1])

\* The technical half of C20: the regions selected are the configured regions
\* whose technical name is requested, in the order of the configuration.
TechnicalNameSelects ==
  (dns.pc \in {"update", "finish", "exit"} /\ dns.regions # <<>>
   /\ dns.args.regions # <<>>)
  => dns.selected = SelectSeq(dns.regions,
                              LAMBDA r : r \in Elements(dns.args.regions[1]))

\* the records parse_log_file returns on a file of the given bytes
RecordsOf(bytes) == ParseLogFile([p \in Paths |-> File(bytes)], Path("in")).ret

\* C21: when main() runs the removal and then the extraction, the records
\* extracted are those of the gateway list the input file held before the
\* removal.  (Stated on the runs in which no filtering comes between the
\* two; ev is then the removal and ev.src the bytes it read.)
C21_ExtractionSeesOriginal ==
  [][(pc = "extract" /\ ev.op = "remove" /\ ev'.op = "parse")
     => ev'.recs = RecordsOf(ev.src)]_vars

\* C22: in main() the calls come in the order removal, time filter,
\* extraction; the first call reads the input path and each later call reads
\* the file the call before it wrote; after a call that failed no call is
\* made and no file is created or modified.
C22_StepsInOrder ==
  [][/\ (ev' # ev /\ ev.op = "none") => ev'.inp = Path("in")
     /\ (ev' # ev /\ ev.op \in {"remove", "filter"}) =>
           /\ ev.ret
           /\ ev'.inp = ev.out
           /\ ev'.op \in (IF ev.op = "remove" THEN {"filter", "parse"} ELSE {"parse"})
     /\ ev.op = "parse" => ev' = ev
     /\ (ev.op \in {"remove", "filter"} /\ ~ev.ret) => (ev' = ev /\ fs' = fs)]_vars

\* the extraction read the separate file the filter wrote, the filter having
\* read the separate file the removal wrote
C22_Witness ==
  /\ pc = "done" /\ ev.op = "parse" /\ ev.inp = Path("filtered")
  /\ args.remove_gateways /\ args.cleaned_log # NoPath
  /\ fs[Path("cleaned")].exists /\ fs[Path("filtered")].exists
  /\ fs[Path("filtered")].data # fs[Path("cleaned")].data

\* the lines of a text that hold a part of its first gateway-list block
BlockLines(text) ==
  LET m == FindBlock(text, 1)
      lines == ReadLines(text)
      First(i) == Len(Concat(SubSeq(lines, 1, i - 1))) + 1
      Last(i) == Len(Concat(SubSeq(lines, 1, i)))
  IN IF m = <<>> THEN <<>>
     ELSE SelectSeq([i \in 1..Len(lines) |->
                       IF First(i) <= m[2] /\ Last(i) >= m[1] THEN lines[i] ELSE <<>>],
                    LAMBDA l : l # <<>>)

\* C23 as stated: for every input and every window the records extracted
\* from the filtered output equal the records extracted from the input.
C23_FilterKeepsRecords ==
  (ev.op = "filter" /\ ev.outWritten) =>
     RecordsOf(fs[ev.out].data) = RecordsOf(ev.src)

\* C23 amended: when no line of the gateway-list block carries a timestamp
\* outside the window, the records extracted from the filtered output equal
\* the records extracted from the input.
C23_FilterKeepsRecordsOfUntimedBlock ==
  (/\ ev.op = "filter" /\ ev.outWritten
   /\ \A i \in 1..Len(BlockLines(ReadText(ev.src))) :
         InWindow(ParseLogTimestamp(BlockLines(ReadText(ev.src))[i]), ev.start, ev.end))
  => RecordsOf(fs[ev.out].data) = RecordsOf(ev.src)

\* a filtering that removed a line and kept the block, whose opening line
\* carries a timestamp inside the window: the two records are extracted
\* from the output
C23_Witness ==
  /\ ev.op = "filter" /\ ev.outWritten /\ ~ev.again /\ ev.removed > 0
  /\ ev.start # NoTime
  /\ Len(BlockLines(ReadText(ev.src))) = 4
  /\ ParseLogTimestamp(BlockLines(ReadText(ev.src))[1]).found
  /\ \A i \in 1..Len(BlockLines(ReadText(ev.src))) :
        InWindow(ParseLogTimestamp(BlockLines(ReadText(ev.src))[i]), ev.start, ev.end)
  /\ Len(RecordsOf(fs[ev.out].data)) = 2

\* C24: a removal or a filtering given an output path different from its
\* input path leaves the input file as it was, whether it succeeds or fails,
\* and writes no file other than the output file and the requested backup.
C24_InputUntouched ==
  [][(ev' # ev /\ ev'.op \in {"remove", "filter"} /\ ev'.out # ev'.inp) =>
        /\ fs'[ev'.inp] = fs[ev'.inp]
        /\ \A p \in Paths :
              fs'[p] # fs[p] =>
                 \/ p = ev'.out
                 \/ ev'.bak # NoPath /\ p = ev'.bak[1]]_vars

\* a filtering of the cleaned file into a third file, with a backup: the
\* output differs from the input, which still holds what the call read
C24_Witness ==
  /\ ev.op = "filter" /\ ev.inp = Path("cleaned") /\ ev.out = Path("filtered")
  /\ ev.bakWritten /\ ev.outWritten /\ ev.removed > 0
  /\ fs[ev.inp].data = ev.src
  /\ fs[ev.out].data # ev.src
  /\ fs[ev.bak[1]].exists

\* the result the leftmost match of one dialect gives by itself
DialectResult(line, dial) ==
  IF FirstStamp(line, dial) = <<>> THEN NotFound
  ELSE ParseStamp(FirstStamp(line, dial)[1])

\* C25: whenever a line contains a Dialect A match, the leftmost Dialect A
\* match determines the result of parse_log_timestamp, whatever Dialect B
\* match the line holds; Dialect B's leftmost match is used when Dialect A's
\* pattern is absent; when neither matches the result is not-found.
C25_DialectAFirst ==
  (ev.op = "filter" /\ ev.readOk) =>
     \A i \in 1..Len(ReadLines(ReadText(ev.src))) :
        LET line == ReadLines(ReadText(ev.src))[i]
        IN ParseLogTimestamp(line) =
              IF FirstStamp(line, "A") # <<>> THEN DialectResult(line, "A")
              ELSE DialectResult(line, "B")

\* the part of C25 that holds: a Dialect A match that reads as a date
\* determines the result, also behind a Dialect B match; without a Dialect A
\* match the leftmost Dialect B match does
DialectAReadableFirst ==
  (ev.op = "filter" /\ ev.readOk) =>
     \A i \in 1..Len(ReadLines(ReadText(ev.src))) :
        LET line == ReadLines(ReadText(ev.src))[i]
        IN ParseLogTimestamp(line) =
              IF DialectResult(line, "A").found THEN DialectResult(line, "A")
              ELSE DialectResult(line, "B")

\* C26: the report of a completed filter_logs_by_time agrees with the file
\* written: total is the number of input lines, removed the number of
\* timestamped lines outside the window, kept = total - removed the number
\* of lines written; a bound is reported only if it was supplied.
C26_ReportConsistent ==
  (ev.op = "filter" /\ ev.ret /\ ~ev.again) =>
     /\ Len(ev.report) = 1
     /\ ev.report[1].total = Len(ReadLines(ReadText(ev.src)))
     /\ ev.report[1].removed =
           Len(SelectSeq(ReadLines(ReadText(ev.src)),
                         LAMBDA line : ~InWindow(LineTime(line), ev.start, ev.end)))
     /\ ev.report[1].kept = ev.report[1].total - ev.report[1].removed
     /\ ev.report[1].kept = Len(ReadLines(TextOf(ev.out)))
     /\ ("start" \in ev.report[1].bounds) = (ev.start # NoTime)
     /\ ("end" \in ev.report[1].bounds) = (ev.end # NoTime)

\* the part of C26 that holds: the same with the time of a line read as
\* parse_log_timestamp reads it
ReportConsistentWithParsedTimes ==
  (ev.op = "filter" /\ ev.ret /\ ~ev.again) =>
     /\ Len(ev.report) = 1
     /\ ev.report[1].total = Len(ReadLines(ReadText(ev.src)))
     /\ ev.report[1].removed =
           Len(SelectSeq(ReadLines(ReadText(ev.src)),
                         LAMBDA line :
                           ~InWindow(ParseLogTimestamp(line), ev.start, ev.end)))
     /\ ev.report[1].kept = ev.report[1].total - ev.report[1].removed
     /\ ev.report[1].kept = Len(ReadLines(TextOf(ev.out)))
     /\ ("start" \in ev.report[1].bounds) = (ev.start # NoTime)
     /\ ("end" \in ev.report[1].bounds) = (ev.end # NoTime)

\* the regions update_dns_config was called with
UpdateRegions == IF dns.args.regions # <<>> THEN <<dns.selected>> ELSE AllRegions

\* C27: in a non-dry-run update_dns_config the effects occur in the order
\* GET, backup, PUT; the PUT is never issued if the GET, the backup write or
\* the merge failed; the backup holds the configuration the GET returned.
C27_GetBackupPut ==
  (dns.effects # <<>> /\ ~dns.args.dry_run) =>
     /\ dns.effects = SubSeq(<<"get", "backup", "put">>, 1, Len(dns.effects))
     /\ dns.backups # <<>> => (dns.fetched # <<>> /\ dns.backups = dns.fetched)
     /\ dns.puts # <<>> =>
           /\ dns.fetched # <<>>
           /\ dns.backups = dns.fetched
           /\ LET p == ProcessDnsUpdate(dns.fetched[1], dns.domains,
                                        dns.args.rule_name, UpdateRegions)
              IN p.raised = "none" /\ dns.puts = <<p.ret>>
     /\ (dns.puts # <<>>) = (dns.effects = <<"get", "backup", "put">>)

\* an update that was applied: the three effects, a backup of the fetched
\* configuration, and a PUT of a configuration that differs from it
C27_Witness ==
  /\ dns.pc = "exit" /\ dns.exit = 0 /\ ~dns.args.dry_run
  /\ dns.effects = <<"get", "backup", "put">>
  /\ dns.backups = dns.fetched
  /\ dns.puts # dns.fetched
  /\ dns.remote = dns.puts[1]

\* C28: in the DNS updater's main, on every path on which authenticate() has
\* succeeded, logout() is called before the process exits.
C28_LogoutOnEveryPath ==
  (dns.pc = "exit" /\ dns.session # "none") => dns.session = "closed"

\* the part of C28 that holds: logout() is called before the exit of a
\* completed run
LogoutOnCompletion ==
  (dns.pc = "exit" /\ dns.exit = 0) => dns.session = "closed"

\* the regions of a call in which _process_dns_update creates a new rule
NewRuleRegions(c) ==
  {i \in 1..Len(c.config.dns_servers) :
     /\ ~Skipped(c.config.dns_servers[i], c.regions)
     /\ \A j \in 1..Len(c.config.dns_servers[i].rules) :
           c.config.dns_servers[i].rules[j].name # c.rule_name}

\* the rule appended to region i
NewRule(c, i) == c.ret.dns_servers[i].rules[Len(c.ret.dns_servers[i].rules)]

\* C29: a rule _process_dns_update creates in a region has the primary and
\* secondary DNS servers of the first region of the configuration.
C29_NewRuleServersOfFirstRegion ==
  (dns.call.op = "process" /\ ~dns.call.again /\ dns.call.raised = "none") =>
     LET c == dns.call
         first == c.config.dns_servers[1]
     IN \A i \in NewRuleRegions(c) :
           (/\ first.rules # <<>>
            /\ first.rules[1].primary # <<>>
            /\ first.rules[1].secondary # <<>>) =>
              /\ NewRule(c, i).name = c.rule_name
              /\ NewRule(c, i).primary = first.rules[1].primary
              /\ NewRule(c, i).secondary = first.rules[1].secondary

\* what holds instead of C29: the servers of a new rule are those of the
\* first rule of the region it is created in, and the fallback addresses
\* where that rule or its server is missing
NewRuleServersOfItsRegion ==
  (dns.call.op = "process" /\ ~dns.call.again /\ dns.call.raised = "none") =>
     LET c == dns.call
     IN \A i \in NewRuleRegions(c) :
           LET rules == c.config.dns_servers[i].rules
           IN /\ NewRule(c, i).name = c.rule_name
              /\ NewRule(c, i).primary =
                    IF rules # <<>> /\ rules[1].primary # <<>>
                    THEN rules[1].primary ELSE <<FallbackPrimary>>
              /\ NewRule(c, i).secondary =
                    IF rules # <<>> /\ rules[1].secondary # <<>>
                    THEN rules[1].secondary ELSE <<FallbackSecondary>>

\* C30: the PCAP merger starts its tools in the order mergecap, editcap,
\* tshark, over at least two input files; a tool is started only if every
\* earlier step succeeded, none is started after the first failing step, and
\* the final success message is printed only when all three succeeded.
C30_StepsInOrderStopAtFailure ==
  /\ \A i \in 1..Len(pm.steps) :
        pm.steps[i].tool = <<"mergecap", "editcap", "tshark">>[i]
  /\ Len(pm.steps) <= 3
  /\ pm.steps # <<>> => Len(pm.files) >= 2
  /\ \A i \in 1..Len(pm.steps) : i < Len(pm.steps) => pm.steps[i].rc = 0
  /\ (\E i \in 1..Len(pm.out) : pm.out[i] = "Process completed successfully") =>
        /\ Len(pm.steps) = 3
        /\ \A i \in 1..3 : pm.steps[i].rc = 0

\* a run that stopped at the second step: mergecap succeeded over two files,
\* editcap failed, tshark was not started, no success message
C30_Witness ==
  /\ pm.pc = "exit"
  /\ Len(pm.files) = 2
  /\ pm.steps = <<Step("mergecap", 0), Step("editcap", 1)>>
  /\ pm.out = <<"aborted due to deduplication error">>

\* a run that completed: the three tools in order and the success message
PcapRunCompleted ==
  /\ pm.pc = "exit"
  /\ pm.steps = <<Step("mergecap", 0), Step("editcap", 0), Step("tshark", 0)>>
  /\ pm.out = <<"Process completed successfully">>

====
